---- MODULE Spec2Model ----
(***************************************************************************)
(* Model of src/src/extension.ts (k8s-service-loader): the parser          *)
(* getServicesMap, the Spinner class and the k8s-service-loader.start      *)
(* command handler registered by activate.                                 *)
(*                                                                         *)
(* A JavaScript string is a sequence of one-character strings, so that     *)
(* startsWith, replace, split, join and template concatenation are         *)
(* computed character by character as the code computes them.              *)
(***************************************************************************)
EXTENDS Integers, Sequences, FiniteSets, TLC

\* ------------------------------------------------------------------------
\* Bounds of the model
\* ------------------------------------------------------------------------
\* data rows of a table built from RowNames
MaxRows == 2
\* dash-separated tokens after the first one in a generated name
MaxBody == 5
\* spinner timer ticks observed in one run of the command
MaxTicks == 1
\* data rows of the table kubectl prints in a run of the command
MaxRunRows == 1

\* ------------------------------------------------------------------------
\* JavaScript values
\* ------------------------------------------------------------------------
\* undefined and null: distinct from every string (no string holds a
\* character of more than one letter)
Undefined == <<"undefined">>
Null == <<"null">>
\* undefined where an object is expected
UndefinedObject == [undefined |-> TRUE]

Dash == "-"
Space == " "
Newline == "\n"

Dev == <<"d", "e", "v">>
Qa == <<"q", "a">>
Stg == <<"s", "t", "g">>
NAME == <<"N", "A", "M", "E">>
NAMESPACE == <<"N", "A", "M", "E", "S", "P", "A", "C", "E">>
READY == <<"R", "E", "A", "D", "Y">>

\* JavaScript truthiness of a string | null | undefined
Truthy(v) == v # Undefined /\ v # Null /\ v # <<>>

\* \s of a regular expression, for the characters the model uses
IsWhitespace(c) == c \in {Space, Newline}

\* String.prototype.startsWith
StartsWith(s, p) == Len(s) >= Len(p) /\ SubSeq(s, 1, Len(p)) = p

RECURSIVE TrimStart(_)
TrimStart(s) ==
  IF s # <<>> /\ IsWhitespace(Head(s)) THEN TrimStart(Tail(s)) ELSE s

RECURSIVE TrimEnd(_)
TrimEnd(s) ==
  IF s # <<>> /\ IsWhitespace(s[Len(s)])
  THEN TrimEnd(SubSeq(s, 1, Len(s) - 1))
  ELSE s

\* String.prototype.trim
Trim(s) == TrimEnd(TrimStart(s))

RECURSIVE SplitAcc(_, _, _)
SplitAcc(s, sep, cur) ==
  IF s = <<>> THEN <<cur>>
  ELSE IF Head(s) = sep THEN <<cur>> \o SplitAcc(Tail(s), sep, <<>>)
  ELSE SplitAcc(Tail(s), sep, Append(cur, Head(s)))

\* String.prototype.split(sep) for a one-character separator
Split(s, sep) == SplitAcc(s, sep, <<>>)

RECURSIVE SplitWsAcc(_, _)
SplitWsAcc(s, cur) ==
  IF s = <<>> THEN <<cur>>
  ELSE IF IsWhitespace(Head(s)) THEN <<cur>> \o SplitWsAcc(TrimStart(s), <<>>)
  ELSE SplitWsAcc(Tail(s), Append(cur, Head(s)))

\* String.prototype.split(/\s+/)
SplitWs(s) == SplitWsAcc(s, <<>>)

RECURSIVE Join(_, _)
\* Array.prototype.join(sep)
Join(parts, sep) ==
  IF parts = <<>> THEN <<>>
  ELSE IF Len(parts) = 1 THEN parts[1]
  ELSE parts[1] \o <<sep>> \o Join(Tail(parts), sep)

RECURSIVE IndexOfFrom(_, _, _)
IndexOfFrom(arr, x, k) ==
  IF k > Len(arr) THEN -1
  ELSE IF arr[k] = x THEN k - 1
  ELSE IndexOfFrom(arr, x, k + 1)

\* Array.prototype.indexOf: 0-based, -1 when absent
IndexOf(arr, x) == IndexOfFrom(arr, x, 1)

\* arr[idx] of a JavaScript array: undefined outside 0..length-1
At(arr, idx) ==
  IF idx >= 0 /\ idx < Len(arr) THEN arr[idx + 1] ELSE Undefined

\* Array.prototype.slice(from, to) with 0-based non-negative bounds
Slice(arr, from, to) == SubSeq(arr, from + 1, to)

\* ------------------------------------------------------------------------
\* getServicesMap
\* ------------------------------------------------------------------------
\* the if / else-if chain on nameColumn.startsWith; <<>> is "continue"
EnvPrefix(nameColumn) ==
  IF StartsWith(nameColumn, Dev \o <<Dash>>) THEN Dev
  ELSE IF StartsWith(nameColumn, Qa \o <<Dash>>) THEN Qa
  ELSE IF StartsWith(nameColumn, Stg \o <<Dash>>) THEN Stg
  ELSE <<>>

\* nameColumn.replace(/^(dev-|qa-|stg-)/, ""): one replacement, at index 0,
\* alternatives tried left to right
StripEnvPrefix(nameColumn) ==
  IF StartsWith(nameColumn, Dev \o <<Dash>>)
  THEN SubSeq(nameColumn, Len(Dev) + 2, Len(nameColumn))
  ELSE IF StartsWith(nameColumn, Qa \o <<Dash>>)
  THEN SubSeq(nameColumn, Len(Qa) + 2, Len(nameColumn))
  ELSE IF StartsWith(nameColumn, Stg \o <<Dash>>)
  THEN SubSeq(nameColumn, Len(Stg) + 2, Len(nameColumn))
  ELSE nameColumn

AnchorAnywhere(pos) == TRUE

\* the ^ of new RegExp(`^${namespaceColumn}-`, "g"): without the m flag it
\* holds at index 0 of the input only
AnchorHolds(pos) == pos = 0

\* whether the pattern ^<literal> matches s at 0-based index pos
MatchesAt(s, pos, literal) ==
  /\ AnchorHolds(pos)
  /\ pos + Len(literal) <= Len(s)
  /\ SubSeq(s, pos + 1, pos + Len(literal)) = literal

RECURSIVE ReplaceAllFrom(_, _, _)
\* String.prototype.replace with a global pattern and "" as replacement:
\* every match found scanning from index pos is removed
ReplaceAllFrom(s, pos, literal) ==
  IF pos >= Len(s) THEN <<>>
  ELSE IF literal # <<>> /\ MatchesAt(s, pos, literal)
  THEN ReplaceAllFrom(s, pos + Len(literal), literal)
  ELSE <<s[pos + 1]>> \o ReplaceAllFrom(s, pos + 1, literal)

\* if (namespaceColumn) modifiedName = modifiedName.replace(RegExp, "")
StripNamespace(modifiedName, namespaceColumn) ==
  IF Truthy(namespaceColumn)
  THEN ReplaceAllFrom(modifiedName, 0, namespaceColumn \o <<Dash>>)
  ELSE modifiedName

NamespaceColumnFromTable(namespace, columns, namespaceIndex) ==
  At(columns, namespaceIndex)

\* namespace ?? columns[namespaceIndex]
NamespaceColumn(namespace, columns, namespaceIndex) ==
  IF namespace # Null /\ namespace # Undefined
  THEN namespace
  ELSE At(columns, namespaceIndex)

\* parts.slice(0, -2).join("-")
ServiceName(parts) == Join(Slice(parts, 0, Len(parts) - 2), Dash)

ServiceIdLastToken(parts) ==
  Join(Slice(parts, Len(parts) - 1, Len(parts)), Dash)

\* parts.slice(-2).join("-")
ServiceId(parts) == Join(Slice(parts, Len(parts) - 2, Len(parts)), Dash)

EmptyMap == [k \in {} |-> {}]

\* obj[key] = value on a Map or a plain object
Put(map, key, value) ==
  [k \in DOMAIN map \cup {key} |-> IF k = key THEN value ELSE map[k]]

PutBindingKeepFirst(map, serviceName, envPrefix, ref) ==
  LET bindings == IF serviceName \in DOMAIN map THEN map[serviceName]
                  ELSE EmptyMap
  IN IF envPrefix \in DOMAIN bindings THEN map
     ELSE Put(map, serviceName, Put(bindings, envPrefix, ref))

\* if (!servicesMap.has(n)) servicesMap.set(n, {});
\* servicesMap.get(n)[envPrefix] = ref
PutBinding(map, serviceName, envPrefix, ref) ==
  LET bindings == IF serviceName \in DOMAIN map THEN map[serviceName]
                  ELSE EmptyMap
  IN Put(map, serviceName, Put(bindings, envPrefix, ref))

EnoughPartsTwo(parts) == Len(parts) > 1

\* parts.length > 2
EnoughParts(parts) == Len(parts) > 2

\* the body of the for loop for one line: the map after it, or a TypeError
\* (startsWith called on undefined)
ProcessLine(map, line, namespace, namespaceIndex, nameIndex) ==
  LET columns == SplitWs(line)
      namespaceColumn == NamespaceColumn(namespace, columns, namespaceIndex)
      nameColumn == At(columns, nameIndex)
  IN IF nameColumn = Undefined THEN [threw |-> TRUE, map |-> map]
     ELSE IF EnvPrefix(nameColumn) = <<>> THEN [threw |-> FALSE, map |-> map]
     ELSE LET parts == Split(StripNamespace(StripEnvPrefix(nameColumn),
                                            namespaceColumn), Dash)
          IN IF EnoughParts(parts)
             THEN [threw |-> FALSE,
                   map |-> PutBinding(map, ServiceName(parts),
                             EnvPrefix(nameColumn),
                             [id |-> ServiceId(parts),
                              namespace |-> namespaceColumn])]
             ELSE [threw |-> FALSE, map |-> map]

RECURSIVE Loop(_, _, _, _, _, _)
\* for (let i = 1; i < lines.length; i++) { ... } return servicesMap;
Loop(lines_, i_, map, namespace_, namespaceIndex_, nameIndex_) ==
  IF ~(i_ < Len(lines_)) THEN [threw |-> FALSE, map |-> map, i |-> i_]
  ELSE LET r == ProcessLine(map, lines_[i_ + 1], namespace_,
                            namespaceIndex_, nameIndex_)
       IN IF r.threw THEN [threw |-> TRUE, map |-> r.map, i |-> i_]
          ELSE Loop(lines_, i_ + 1, r.map, namespace_,
                    namespaceIndex_, nameIndex_)

\* podsData.trim().split("\n")
Lines(podsData_) == Split(Trim(podsData_), Newline)

\* lines[0].split(/\s+/)
Headers(lines_) == SplitWs(lines_[1])

\* the whole call: the returned map, or a thrown TypeError
GetServicesMap(podsData_, namespace_) ==
  LET ls == Lines(podsData_)
  IN Loop(ls, 1, EmptyMap, namespace_,
          IndexOf(Headers(ls), NAMESPACE), IndexOf(Headers(ls), NAME))

\* ------------------------------------------------------------------------
\* Inputs: the text kubectl prints and the namespace the operator typed
\* ------------------------------------------------------------------------
NsT == <<"t">>
NsTA == <<"t", "-", "a">>

\* t is the namespace; s and u are services; i-j and i-k are ids
RowNames ==
  { Dev \o <<"-", "t", "-", "s", "-", "i", "-", "j">>,
    Dev \o <<"-", "t", "-", "s", "-", "i", "-", "k">>,
    Qa \o <<"-", "t", "-", "s", "-", "i", "-", "j">>,
    Dev \o <<"-", "t", "-", "u", "-", "i", "-", "j">>,
    Dev \o <<"-", "s", "-", "i", "-", "j">>,
    Dev \o <<"-", "s", "-", "i">>,
    <<"x", "-", "t", "-", "s", "-", "i", "-", "j">> }

NameReady == NAME \o <<Space>> \o READY
NamespaceName == NAMESPACE \o <<Space>> \o NAME
NamespaceReady == NAMESPACE \o <<Space>> \o READY

HeaderLines == {NamespaceName, NameReady, NamespaceReady}

BareName == Dev \o <<"-", "s", "-", "i">>

\* the data lines under a header: a blank line and, when NAMESPACE is the
\* first column, "<namespace> <name>" for every name, the namespace alone
\* and a name alone; otherwise every name alone and one "<namespace> <name>"
RowLines(header) ==
  IF header = NameReady
  THEN {<<>>} \cup RowNames \cup {NsT \o <<Space>> \o BareName}
  ELSE {<<>>, NsT, BareName} \cup {NsT \o <<Space>> \o n : n \in RowNames}

SeqsUpTo(S, n) == UNION {[1..k -> S] : k \in 0..n}

\* the table as kubectl prints it: one line each, every line ended by \n
RenderTable(header, rows) == Join(<<header>> \o rows, Newline) \o <<Newline>>

FirstTokens == {Dev, Qa, Stg, <<"s">>}
BodyTokens == {<<"t">>, <<"a">>, <<"s">>}

\* names of up to MaxBody + 1 tokens
WideNames ==
  {Join(<<f>> \o body, Dash) :
     f \in FirstTokens, body \in SeqsUpTo(BodyTokens, MaxBody)}

\* arguments of getServicesMap: tables of up to MaxRows lines of RowLines
\* under every header of HeaderLines, and one-row tables of every name of
\* WideNames, with a NAMESPACE column or with the namespace given
ParseInputs ==
  UNION {{[podsData |-> RenderTable(h, rows), namespace |-> n] :
            rows \in SeqsUpTo(RowLines(h), MaxRows), n \in {Null, NsT}} :
         h \in HeaderLines}
  \cup
  {[podsData |-> RenderTable(NamespaceName, <<ns \o <<Space>> \o n>>),
    namespace |-> Null] : n \in WideNames, ns \in {NsT, NsTA}}
  \cup
  {[podsData |-> RenderTable(NameReady, <<n>>),
    namespace |-> ns] : n \in WideNames, ns \in {NsT, NsTA}}

\* ------------------------------------------------------------------------
\* State
\* ------------------------------------------------------------------------
VARIABLES
  podsData,        \* the text handed to getServicesMap
  gsmNamespace,    \* getServicesMap's namespace parameter
  lines,           \* getServicesMap: lines
  namespaceIndex,  \* getServicesMap: namespaceIndex
  nameIndex,       \* getServicesMap: nameIndex
  i,               \* getServicesMap: loop index
  servicesMap,     \* the map being built, then activate's servicesMap
  gsm,             \* getServicesMap: "idle", "call", "loop", "returned", "threw"
  pc,              \* the command handler: the await it is suspended at
  namespace,       \* activate: namespace, the first input box's answer
  servicesList,    \* activate: servicesList
  selectedService, \* activate: selectedService
  environment,     \* activate: environment
  serviceDetails,  \* activate: serviceDetails
  localPort,       \* activate: localPort
  servicePort,     \* activate: servicePort
  intervalId,      \* Spinner.intervalId; 0 is null
  timers,          \* the intervals set and not cleared
  timerSeq,        \* the number of setInterval calls so far
  outputChannel,   \* what was appended to the output channel, in order
  execs,           \* the commands handed to execPromise, in order
  terminals,       \* activate: terminals, with the text sent to each
  messages         \* the information and error messages shown, in order

parseVars ==
  <<podsData, gsmNamespace, lines, namespaceIndex, nameIndex, i,
    servicesMap, gsm>>

runVars ==
  <<pc, namespace, servicesList, selectedService, environment,
    serviceDetails, localPort, servicePort, intervalId, timers, timerSeq,
    outputChannel, execs, terminals, messages>>

vars == <<parseVars, runVars>>

\* no command is running
RunIdle ==
  /\ pc = "idle"
  /\ namespace = Undefined
  /\ servicesList = <<>>
  /\ selectedService = Undefined
  /\ environment = Undefined
  /\ serviceDetails = UndefinedObject
  /\ localPort = Undefined
  /\ servicePort = Undefined
  /\ intervalId = 0
  /\ timers = {}
  /\ timerSeq = 0
  /\ outputChannel = <<>>
  /\ execs = <<>>
  /\ terminals = <<>>
  /\ messages = <<>>

\* ------------------------------------------------------------------------
\* getServicesMap, statement by statement
\* ------------------------------------------------------------------------
InitParse ==
  /\ \E in \in ParseInputs :
       /\ podsData = in.podsData
       /\ gsmNamespace = in.namespace
  /\ lines = <<>>
  /\ namespaceIndex = -1
  /\ nameIndex = -1
  /\ i = 0
  /\ servicesMap = EmptyMap
  /\ gsm = "call"
  /\ RunIdle

\* lines 238-244: the map, the lines, the header's indices
GsmEnter ==
  /\ gsm = "call"
  /\ lines' = Lines(podsData)
  /\ namespaceIndex' = IndexOf(Headers(Lines(podsData)), NAMESPACE)
  /\ nameIndex' = IndexOf(Headers(Lines(podsData)), NAME)
  /\ servicesMap' = EmptyMap
  /\ i' = 1
  /\ gsm' = "loop"
  /\ UNCHANGED <<podsData, gsmNamespace, runVars>>

\* lines 246-286: one iteration of the loop
GsmIterate ==
  /\ gsm = "loop"
  /\ i < Len(lines)
  /\ LET r == ProcessLine(servicesMap, lines[i + 1], gsmNamespace,
                          namespaceIndex, nameIndex)
     IN /\ servicesMap' = r.map
        /\ gsm' = IF r.threw THEN "threw" ELSE "loop"
        /\ i' = IF r.threw THEN i ELSE i + 1
  /\ UNCHANGED <<podsData, gsmNamespace, lines, namespaceIndex, nameIndex,
                 runVars>>

\* line 287: return servicesMap
GsmReturn ==
  /\ gsm = "loop"
  /\ ~(i < Len(lines))
  /\ gsm' = "returned"
  /\ UNCHANGED <<podsData, gsmNamespace, lines, namespaceIndex, nameIndex,
                 i, servicesMap, runVars>>

NextParse == GsmEnter \/ GsmIterate \/ GsmReturn

SpecParse == InitParse /\ [][NextParse]_vars

\* ------------------------------------------------------------------------
\* Spinner
\* ------------------------------------------------------------------------
\* the spinner's field, Node's table of intervals and the output channel
Sp ==
  [intervalId |-> intervalId, timers |-> timers, timerSeq |-> timerSeq,
   out |-> outputChannel]

\* outputChannel.append / appendLine
AppendOut(sp, text) == [sp EXCEPT !.out = Append(@, text)]

\* Spinner.start
SpinnerStart(sp, message) ==
  IF sp.intervalId # 0 THEN sp
  ELSE [sp EXCEPT !.out = Append(@, <<message, "...">>),
                  !.intervalId = sp.timerSeq + 1,
                  !.timers = @ \cup {sp.timerSeq + 1},
                  !.timerSeq = @ + 1]

\* Spinner.stop
SpinnerStop(sp, success) ==
  IF sp.intervalId # 0
  THEN [sp EXCEPT !.timers = @ \ {sp.intervalId},
                  !.intervalId = 0,
                  !.out = Append(@, IF success THEN <<"done.">>
                                    ELSE <<"failed.">>)]
  ELSE sp

SetSp(sp) ==
  /\ intervalId' = sp.intervalId
  /\ timers' = sp.timers
  /\ timerSeq' = sp.timerSeq
  /\ outputChannel' = sp.out

\* ------------------------------------------------------------------------
\* The command k8s-service-loader.start
\* ------------------------------------------------------------------------
\* UTF-16 order of the characters of the names
CharsByCode ==
  <<"-", "a", "d", "e", "g", "i", "j", "k", "q", "s", "t", "u", "v", "x">>
CodeUnit(c) == CHOOSE k \in 1..Len(CharsByCode) : CharsByCode[k] = c

RECURSIVE Before(_, _)
\* a sorts before b, or is b, in Array.prototype.sort's default order
Before(a, b) ==
  IF a = <<>> THEN TRUE
  ELSE IF b = <<>> THEN FALSE
  ELSE IF Head(a) # Head(b) THEN CodeUnit(Head(a)) < CodeUnit(Head(b))
  ELSE Before(Tail(a), Tail(b))

RECURSIVE Sorted(_)
Sorted(S) ==
  IF S = {} THEN <<>>
  ELSE LET m == CHOOSE x \in S : \A y \in S : Before(x, y)
       IN <<m>> \o Sorted(S \ {m})

\* Array.from(servicesMap.keys()).sort()
ServicesList(map) == Sorted(DOMAIN map)

\* v || d
OrElse(v, d) == IF Truthy(v) THEN v ELSE d

\* ${v} in a template literal
Str(v) ==
  IF v = Undefined THEN <<"u", "n", "d", "e", "f", "i", "n", "e", "d">>
  ELSE v

Port3000 == <<"3", "0", "0", "0">>

LookupAnyEnvironment(map, service, env) ==
  IF service \in DOMAIN map /\ env \in DOMAIN map[service]
  THEN map[service][env]
  ELSE IF service \in DOMAIN map /\ DOMAIN map[service] # {}
  THEN map[service][CHOOSE e \in DOMAIN map[service] : TRUE]
  ELSE UndefinedObject

\* servicesMap.get(selectedService)?.[environment]
Lookup(map, service, env) ==
  IF service \in DOMAIN map /\ env \in DOMAIN map[service]
  THEN map[service][env]
  ELSE UndefinedObject

\* `${environment}-${serviceNamespace}-${selectedService}`
ServiceTarget(env, serviceNamespace, service) ==
  env \o <<Dash>> \o Str(serviceNamespace) \o <<Dash>> \o service

\* `${environment}-${serviceNamespace}-${selectedService}-${serviceDetails.id}`
PodTarget(env, serviceNamespace, service, id) ==
  ServiceTarget(env, serviceNamespace, service) \o <<Dash>> \o id

Command(verb, ns, target, ports) ==
  [verb |-> verb, namespace |-> ns, target |-> target, ports |-> ports]

\* what execPromise may resolve to for the command of lines 84-86: kubectl
\* prints the NAMESPACE column for --all-namespaces only
RunHeader(ns) == IF Truthy(ns) THEN NameReady ELSE NamespaceName

RunTables(ns) ==
  {RenderTable(RunHeader(ns), rows) :
     rows \in SeqsUpTo(RowLines(RunHeader(ns)), MaxRunRows)}

CatchLeavesSpinner(sp) == sp

\* lines 226-228: if (spinner) spinner.stop(false)
CatchStop(sp) == SpinnerStop(sp, FALSE)

\* lines 224-230: the catch block, entered with the spinner state sp
Catch(sp) ==
  /\ SetSp(CatchStop(sp))
  /\ messages' = Append(messages, <<"Error: ", "error">>)
  /\ pc' = "done"

Init ==
  /\ podsData = <<>>
  /\ gsmNamespace = Null
  /\ lines = <<>>
  /\ namespaceIndex = -1
  /\ nameIndex = -1
  /\ i = 0
  /\ servicesMap = EmptyMap
  /\ gsm = "idle"
  /\ RunIdle

\* lines 64-81: the command is invoked; the namespace input box opens
Start ==
  /\ pc = "idle"
  /\ pc' = "askNamespace"
  /\ UNCHANGED <<parseVars, namespace, servicesList, selectedService,
                 environment, serviceDetails, localPort, servicePort,
                 intervalId, timers, timerSeq, outputChannel, execs,
                 terminals, messages>>

\* lines 77-91: the namespace is answered (undefined: dismissed)
NamespaceEntered ==
  /\ pc = "askNamespace"
  /\ \E v \in {Undefined, <<>>, NsT} :
       /\ namespace' = v
       /\ execs' = Append(execs,
            IF Truthy(v) THEN Command("get pods --namespace", v, <<>>, <<>>)
            ELSE Command("get pods --all-namespaces", <<>>, <<>>, <<>>))
  /\ SetSp(SpinnerStart(AppendOut(Sp, <<"Running: ", "getPodsCommand">>),
                        "Loading services"))
  /\ pc' = "getPods"
  /\ UNCHANGED <<parseVars, servicesList, selectedService, environment,
                 serviceDetails, localPort, servicePort, terminals, messages>>

\* line 91 rejects (kubectl failed or wrote to stderr), lines 224-230
GetPodsRejects ==
  /\ pc = "getPods"
  /\ Catch(Sp)
  /\ UNCHANGED <<parseVars, namespace, servicesList, selectedService,
                 environment, serviceDetails, localPort, servicePort, execs,
                 terminals>>

\* lines 91-110: kubectl's output arrives and is parsed
GetPodsResolves ==
  /\ pc = "getPods"
  /\ \E text \in RunTables(namespace) :
       LET arg == OrElse(namespace, Null)
           r == GetServicesMap(text, arg)
           stopped == SpinnerStop(Sp, TRUE)
       IN /\ podsData' = text
          /\ gsmNamespace' = arg
          /\ lines' = Lines(text)
          /\ namespaceIndex' = IndexOf(Headers(Lines(text)), NAMESPACE)
          /\ nameIndex' = IndexOf(Headers(Lines(text)), NAME)
          /\ i' = r.i
          /\ IF r.threw
             THEN /\ gsm' = "threw"
                  /\ Catch(stopped)
                  /\ UNCHANGED <<servicesMap, servicesList>>
             ELSE /\ gsm' = "returned"
                  /\ servicesMap' = r.map
                  /\ servicesList' = ServicesList(r.map)
                  /\ SetSp(stopped)
                  /\ IF Len(ServicesList(r.map)) = 0
                     THEN /\ messages' =
                               Append(messages, <<"No services found">>)
                          /\ pc' = "done"
                     ELSE /\ pc' = "pickService"
                          /\ UNCHANGED messages
  /\ UNCHANGED <<namespace, selectedService, environment, serviceDetails,
                 localPort, servicePort, execs, terminals>>

\* lines 104-122: a service is picked (undefined: dismissed)
ServicePicked ==
  /\ pc = "pickService"
  /\ \E v \in {servicesList[k] : k \in 1..Len(servicesList)} \cup {Undefined} :
       /\ selectedService' = v
       /\ IF ~Truthy(v)
          THEN pc' = "done" /\ UNCHANGED outputChannel
          ELSE /\ pc' = "pickEnvironment"
               /\ outputChannel' =
                    Append(outputChannel, <<"You selected service: ">>)
  /\ UNCHANGED <<parseVars, namespace, servicesList, environment,
                 serviceDetails, localPort, servicePort, intervalId, timers,
                 timerSeq, execs, terminals, messages>>

\* lines 119-151: an environment is picked and looked up
EnvironmentPicked ==
  /\ pc = "pickEnvironment"
  /\ \E v \in {Dev, Qa, Stg, Undefined} :
       /\ environment' = v
       /\ IF ~Truthy(v)
          THEN /\ pc' = "done"
               /\ UNCHANGED <<serviceDetails, outputChannel, messages>>
          ELSE LET details == Lookup(servicesMap, selectedService, v)
               IN /\ serviceDetails' = details
                  /\ IF details = UndefinedObject
                     THEN /\ messages' = Append(messages,
                               <<"The selected environment does not exist">>)
                          /\ outputChannel' = Append(outputChannel,
                               <<"Selected environment: ">>)
                          /\ pc' = "done"
                     ELSE /\ outputChannel' = outputChannel \o
                               << <<"Selected environment: ">>,
                                  <<"Service ID: ">>,
                                  <<"Service namespace: ">> >>
                          /\ pc' = "askLocalPort"
                          /\ UNCHANGED messages
  /\ UNCHANGED <<parseVars, namespace, servicesList, selectedService,
                 localPort, servicePort, intervalId, timers, timerSeq, execs,
                 terminals>>

\* activate's serviceNamespace: namespace || serviceDetails.namespace
ServiceNamespace == OrElse(namespace, serviceDetails.namespace)

\* lines 145-167: the local port is answered; the service port is queried
LocalPortEntered ==
  /\ pc = "askLocalPort"
  /\ \E v \in {Undefined, <<"8">>} : localPort' = OrElse(v, Port3000)
  /\ execs' = Append(execs,
       Command("get service", Str(ServiceNamespace),
               ServiceTarget(environment, ServiceNamespace, selectedService),
               <<>>))
  /\ SetSp(SpinnerStart(
       AppendOut(AppendOut(Sp, <<"Local port: ">>),
                 <<"Running: ", "getServicePortCommand">>),
       "Detecting port on the Kubernetes service"))
  /\ pc' = "detectPort"
  /\ UNCHANGED <<parseVars, namespace, servicesList, selectedService,
                 environment, serviceDetails, servicePort, terminals,
                 messages>>

\* lines 167-183: the query answers, or fails and 3000 is assumed
PortDetected ==
  /\ pc = "detectPort"
  /\ \/ /\ servicePort' = <<"8", "0">>
        /\ SetSp(AppendOut(SpinnerStop(Sp, TRUE), <<"Port detected: ">>))
     \/ /\ servicePort' = Port3000
        /\ SetSp(AppendOut(SpinnerStop(Sp, FALSE),
                           <<"Error detecting port: ">>))
  /\ pc' = "askServicePort"
  /\ UNCHANGED <<parseVars, namespace, servicesList, selectedService,
                 environment, serviceDetails, localPort, execs, terminals,
                 messages>>

\* lines 177-210: the destination port is answered; the port-forward
\* terminal is opened.  createTerminal may throw: lines 224-230 then run
\* with the spinner started.
ServicePortEntered ==
  /\ pc = "askServicePort"
  /\ \E v \in {Undefined, <<"9">>} :
       LET port == OrElse(v, Port3000)
           started ==
             SpinnerStart(
               AppendOut(AppendOut(Sp, <<"Destination port: ">>),
                         <<"Running: ", "portForwardCommand">>),
               "Initializing port forwarding")
       IN /\ servicePort' = port
          /\ \/ /\ terminals' = Append(terminals,
                     [name |-> "K8s Port Forward",
                      text |-> Command("port-forward", Str(ServiceNamespace),
                                 PodTarget(environment, ServiceNamespace,
                                           selectedService, serviceDetails.id),
                                 <<localPort, port>>)])
                /\ SetSp(SpinnerStop(started, TRUE))
                /\ messages' = Append(messages, <<"Service available at: ">>)
                /\ pc' = "askLogs"
             \/ /\ Catch(started)
                /\ UNCHANGED terminals
  /\ UNCHANGED <<parseVars, namespace, servicesList, selectedService,
                 environment, serviceDetails, localPort, execs>>

\* lines 207-223: the logs question is answered (undefined: dismissed)
LogsAnswered ==
  /\ pc = "askLogs"
  /\ \E v \in {<<"Yes">>, <<"No">>, Undefined} :
       IF v = <<"Yes">>
       THEN /\ outputChannel' =
                 Append(outputChannel, <<"Running: ", "logsCommand">>)
            /\ terminals' = Append(terminals,
                 [name |-> "K8s Logs",
                  text |-> Command("logs", Str(ServiceNamespace),
                             PodTarget(environment, ServiceNamespace,
                                       selectedService, serviceDetails.id),
                             <<>>)])
       ELSE UNCHANGED <<outputChannel, terminals>>
  /\ pc' = "done"
  /\ UNCHANGED <<parseVars, namespace, servicesList, selectedService,
                 environment, serviceDetails, localPort, servicePort,
                 intervalId, timers, timerSeq, execs, messages>>

Prompts ==
  {"askNamespace", "pickService", "pickEnvironment", "askLocalPort",
   "askServicePort", "askLogs"}

\* an awaited input box or quick pick rejects: lines 224-230
PromptRejects ==
  /\ pc \in Prompts
  /\ Catch(Sp)
  /\ UNCHANGED <<parseVars, namespace, servicesList, selectedService,
                 environment, serviceDetails, localPort, servicePort, execs,
                 terminals>>

\* the number of dots the interval callback has appended
Ticks ==
  Cardinality({k \in 1..Len(outputChannel) : outputChannel[k] = <<".">>})

\* lines 36-41: the interval fires while the handler awaits
Tick ==
  /\ timers # {}
  /\ Ticks < MaxTicks
  /\ outputChannel' = Append(outputChannel, <<".">>)
  /\ UNCHANGED <<parseVars, pc, namespace, servicesList, selectedService,
                 environment, serviceDetails, localPort, servicePort,
                 intervalId, timers, timerSeq, execs, terminals, messages>>

Next ==
  \/ Start
  \/ NamespaceEntered
  \/ GetPodsRejects
  \/ GetPodsResolves
  \/ ServicePicked
  \/ EnvironmentPicked
  \/ LocalPortEntered
  \/ PortDetected
  \/ ServicePortEntered
  \/ LogsAnswered
  \/ PromptRejects
  \/ Tick

Spec == Init /\ [][Next]_vars

\* ------------------------------------------------------------------------
\* What the claims say of a row, stated on the name itself
\* ------------------------------------------------------------------------
EnvTags == {Dev, Qa, Stg}

\* the data rows are lines[2..Len(lines)]; rows 2..i have been processed
RowColumns(k) == SplitWs(lines[k])
RowName(k) == At(RowColumns(k), nameIndex)
RowNamespace(k) ==
  IF gsmNamespace # Null THEN gsmNamespace
  ELSE At(RowColumns(k), namespaceIndex)

DashCount(s) == Cardinality({k \in 1..Len(s) : s[k] = Dash})
Begins(s, p) == Len(p) <= Len(s) /\ SubSeq(s, 1, Len(p)) = p
DropFirst(s, n) == SubSeq(s, n + 1, Len(s))

HasEnvTag(name) == \E e \in EnvTags : Begins(name, e \o <<Dash>>)
EnvTagOf(name) == CHOOSE e \in EnvTags : Begins(name, e \o <<Dash>>)
\* the name without its environment prefix
Stripped(name) == DropFirst(name, Len(EnvTagOf(name)) + 1)
\* and without one leading "<namespace>-"
Remainder(name, ns) ==
  IF Truthy(ns) /\ Begins(Stripped(name), ns \o <<Dash>>)
  THEN DropFirst(Stripped(name), Len(ns) + 1)
  ELSE Stripped(name)
\* the dash before the last two tokens
CutOf(rest) ==
  CHOOSE k \in 1..Len(rest) :
    rest[k] = Dash
      /\ Cardinality({m \in (k + 1)..Len(rest) : rest[m] = Dash}) = 1
\* tokens 1..n-2 and tokens n-1..n of the remainder
ServiceOf(rest) == SubSeq(rest, 1, CutOf(rest) - 1)
IdOf(rest) == DropFirst(rest, CutOf(rest))

\* what row k resolves to: whether its name has an environment prefix and 3
\* tokens or more, and then the service, environment and reference
RowFact(k) ==
  LET name == RowName(k)
      ns == RowNamespace(k)
  IN IF name = Undefined \/ ~HasEnvTag(name)
     THEN [resolves |-> FALSE, service |-> <<>>, env |-> <<>>,
           ref |-> UndefinedObject]
     ELSE LET rest == Remainder(name, ns)
          IN IF DashCount(rest) < 2
             THEN [resolves |-> FALSE, service |-> <<>>, env |-> <<>>,
                   ref |-> UndefinedObject]
             ELSE [resolves |-> TRUE,
                   service |-> ServiceOf(rest),
                   env |-> EnvTagOf(name),
                   ref |-> [id |-> IdOf(rest), namespace |-> ns]]

Resolves(k) == RowFact(k).resolves
RowService(k) == RowFact(k).service
RowEnv(k) == RowFact(k).env
RowRef(k) == RowFact(k).ref

HasBinding(map, service, env) ==
  service \in DOMAIN map /\ env \in DOMAIN map[service]

\* a row has just been processed without an error
RowDone == gsm \in {"loop", "returned"} /\ i >= 2

\* C1: a row with an environment prefix and n >= 3 tokens left after the
\* prefix and a leading "<namespace>-" are removed binds
\* catalog[tokens 1..n-2][prefix] to {tokens n-1..n, the row's namespace}.
C1_RowBinds ==
  RowDone =>
    LET row == RowFact(i)
    IN row.resolves =>
         /\ HasBinding(servicesMap, row.service, row.env)
         /\ servicesMap[row.service][row.env] = row.ref

\* namespace t-a, name dev-t-a-s-a-s: catalog[s][dev] = {a-s, t-a}
C1_Witness ==
  /\ RowDone /\ i = 2
  /\ RowName(2) = Dev \o <<"-", "t", "-", "a", "-", "s", "-", "a", "-", "s">>
  /\ RowNamespace(2) = NsTA
  /\ servicesMap =
       (<<"s">> :> (Dev :> [id |-> <<"a", "-", "s">>, namespace |-> NsTA]))

\* the binding row k resolves to is in the map already, with the same value
AlreadyBound(map, k) ==
  /\ HasBinding(map, RowService(k), RowEnv(k))
  /\ map[RowService(k)][RowEnv(k)] = RowRef(k)

\* one iteration of the loop is about to process row i + 1
Iterating == gsm = "loop" /\ i < Len(lines)

\* C2 as stated: a data row changes the catalog if and only if its name has
\* an environment prefix and 3 tokens or more remain after stripping.
C2_ChangesIffResolves ==
  [][Iterating => ((servicesMap' # servicesMap) <=> Resolves(i + 1))]_vars

\* C2, amended: a data row changes the catalog if and only if it resolves
\* (prefix, 3 tokens or more) and its binding is not already in the catalog
\* with the same id and namespace; after any other row the catalog is
\* identical to the catalog before it.
C2_ChangesIffNewBinding ==
  [][Iterating =>
       ((servicesMap' # servicesMap) <=>
          (Resolves(i + 1) /\ ~AlreadyBound(servicesMap, i + 1)))]_vars

\* a binding from row 2, then dev-s-i (two tokens left) leaves it alone
C2_Witness ==
  /\ RowDone /\ i = 3
  /\ Resolves(2)
  /\ RowName(3) = Dev \o <<"-", "s", "-", "i">>
  /\ servicesMap = (RowService(2) :> (RowEnv(2) :> RowRef(2)))

C4_NoNameNeverReturns == gsm = "returned" => nameIndex # -1

\* a data line whose tokens do not reach the NAME column, or the NAMESPACE
\* column when no namespace is given
ShortLine(k) ==
  \/ Len(RowColumns(k)) <= nameIndex
  \/ gsmNamespace = Null /\ Len(RowColumns(k)) <= namespaceIndex

\* the header has the columns the call needs
HeaderComplete ==
  nameIndex >= 0 /\ (gsmNamespace = Null => namespaceIndex >= 0)

Without(seq, k) == SubSeq(seq, 1, k - 1) \o SubSeq(seq, k + 1, Len(seq))

\* C5: a short data line is skipped without an error, and the catalog of
\* the table equals the catalog of the table without that line.
C5_ShortLineSkipped ==
  (gsm \in {"threw", "returned"} /\ HeaderComplete) =>
    \A k \in 2..Len(lines) :
      ShortLine(k) =>
        /\ gsm = "returned"
        /\ servicesMap =
             Loop(Without(lines, k), 1, EmptyMap, gsmNamespace,
                  namespaceIndex, nameIndex).map

\* every data line is "<ns> <name>" under the header NAMESPACE NAME
OneNamespace(ns) ==
  /\ gsmNamespace = Null
  /\ lines[1] = NamespaceName
  /\ Len(lines) >= 2
  /\ \A k \in 2..Len(lines) :
       Len(RowColumns(k)) = 2 /\ RowColumns(k)[1] = ns

\* the same names in a table without the NAMESPACE column
NamesOnly ==
  RenderTable(NameReady,
              [k \in 1..(Len(lines) - 1) |-> RowColumns(k + 1)[2]])

\* C6: rows of one namespace N parsed from a table with a NAMESPACE column
\* and no fixed namespace give the catalog that the same names give in a
\* table without the column and N as the fixed namespace.
C6_FixedNamespaceSameCatalog ==
  gsm \in {"returned", "threw"} =>
    \A ns \in {NsT, NsTA} :
      OneNamespace(ns) =>
        /\ gsm = "returned"
        /\ ~GetServicesMap(NamesOnly, ns).threw
        /\ GetServicesMap(NamesOnly, ns).map = servicesMap

C6_Witness ==
  /\ gsm = "returned"
  /\ OneNamespace(NsT)
  /\ Len(lines) = 3
  /\ Cardinality(DOMAIN servicesMap) = 2

\* C7: the "<namespace>-" segment is removed only at the start of the
\* prefix-stripped name and only once.  For the first row of a table (the
\* catalog was empty): the service and id it binds, joined by a dash, are
\* the stripped name itself when it does not begin with "<namespace>-", and
\* the stripped name is "<namespace>-" followed by them when it does; and a
\* row whose stripped name has 3 tokens beyond that segment is bound.
C7_StripsOneLeadingSegment ==
  (RowDone /\ i = 2 /\ HasEnvTag(RowName(2)) /\ Truthy(RowNamespace(2))) =>
    LET name == Stripped(RowName(2))
        seg == RowNamespace(2) \o <<Dash>>
    IN /\ \A service \in DOMAIN servicesMap :
            LET kept == service \o <<Dash>>
                          \o servicesMap[service][RowEnv(2)].id
            IN IF Begins(name, seg) THEN name = seg \o kept
               ELSE name = kept
       /\ (DashCount(name) >= 2 + (IF Begins(name, seg) THEN
                                     DashCount(seg) ELSE 0))
            => DOMAIN servicesMap # {}

\* dev-t-t-s-a-s in namespace t: the second t stays in the service name
C7_Witness ==
  /\ RowDone /\ i = 2
  /\ RowName(2) = Dev \o <<"-", "t", "-", "t", "-", "s", "-", "a", "-", "s">>
  /\ RowNamespace(2) = NsT
  /\ DOMAIN servicesMap = {<<"t", "-", "s">>}

\* the (service, environment) pair the operator picked has no binding
PickedAbsent ==
  /\ Truthy(selectedService)
  /\ Truthy(environment)
  /\ ~HasBinding(servicesMap, selectedService, environment)

\* C8: looking up a pair without a binding yields "absent", not a failure,
\* and the run then ends without a service-port query, a port-forward or
\* log command, or a terminal.
C8_AbsentEndsRun ==
  PickedAbsent =>
    /\ pc = "done"
    /\ serviceDetails = UndefinedObject
    /\ terminals = <<>>
    /\ \A k \in 1..Len(execs) : execs[k].verb # "get service"
    /\ messages = << <<"The selected environment does not exist">> >>

\* service s is deployed in dev only and qa is picked
C8_Witness ==
  /\ PickedAbsent
  /\ selectedService = <<"s">>
  /\ environment = Qa
  /\ HasBinding(servicesMap, <<"s">>, Dev)

\* the row that produced the binding of the picked pair
ProducerRow ==
  CHOOSE k \in 2..i :
    /\ Resolves(k) /\ RowService(k) = selectedService
    /\ RowEnv(k) = environment
    /\ \A m \in (k + 1)..i :
         ~(Resolves(m) /\ RowService(m) = selectedService
                       /\ RowEnv(m) = environment)

\* C9: the instance name rebuilt for the port-forward and log commands,
\* <env>-<namespace>-<service>-<id>, is the raw NAME of the row that
\* produced the binding, also when that name had no "<namespace>-" segment.
C9_RebuiltNameIsRowName ==
  \A k \in 1..Len(terminals) :
    terminals[k].text.target = RowName(ProducerRow)

SpinnerStarts ==
  Cardinality({k \in 1..Len(outputChannel) :
                 Len(outputChannel[k]) = 2 /\ outputChannel[k][2] = "..."})
SpinnerEnds ==
  Cardinality({k \in 1..Len(outputChannel) :
                 outputChannel[k] \in {<<"done.">>, <<"failed.">>}})

\* C10: within a run at most one spinner timer is active, every spinner
\* that was started and stopped appended exactly one "done." or "failed.",
\* and however the run ends no timer is left running.
C10_SpinnerTimers ==
  /\ Cardinality(timers) <= 1
  /\ (intervalId = 0) <=> (timers = {})
  /\ SpinnerStarts = timerSeq
  /\ SpinnerStarts - SpinnerEnds = Cardinality(timers)
  /\ pc = "done" => timers = {}

\* kubectl get pods fails while "Loading services" spins: the catch block
\* stops the spinner with "failed."
C10_Witness ==
  /\ pc = "done"
  /\ timerSeq = 1
  /\ outputChannel[Len(outputChannel)] = <<"failed.">>
  /\ messages = << <<"Error: ", "error">> >>

====
